---- MODULE Spec2Model ----
(***************************************************************************)
(* OpenPixelControl stream codec.                                          *)
(*                                                                         *)
(*   OpcClientStream (src/unnamed/part_000): setPixelColors, sysex and the *)
(*   static createMessage build wire frames and push them on a readable    *)
(*   stream.                                                               *)
(*   OpcParseStream (src/lib/parse.js): _write reassembles frames out of   *)
(*   arbitrarily chunked bytes, _handleOpcMessage filters and dispatches   *)
(*   them to the setPixelColors / sysex handlers.                          *)
(*                                                                         *)
(* A Buffer is a sequence of bytes (0..255); byte offset k of the source   *)
(* is index k+1 here.  this._pushback = null is the empty sequence: the    *)
(* code never stores an empty Buffer in _pushback (lines 98, 109 and 115   *)
(* store a non-empty one), so "null" and "no residual byte" coincide.      *)
(***************************************************************************)
EXTENDS Integers, Sequences, FiniteSets

VARIABLES
    options,     \* the argument the OpcParseStream was constructed with
    parser,      \* the OpcParseStream: _pushback, dataFormat, channel, systemId
    stream,      \* bytes pushed by the OpcClientStream, not yet written to the parser
    sent,        \* history: the client calls made so far, with what each produced
    built,       \* history: createMessage calls whose result was decoded on its own
    chunks,      \* history: the lengths of the Buffer chunks written so far
    dispatched,  \* history: the _handleOpcMessage calls, each with the _write call it ran in
    handled,     \* history: the handler calls (setPixelColors / sysex), each with its frame
    encoding,    \* the encoding argument of the latest _write call ("none" before the first)
    callbacks    \* the callback invocations of the latest _write call

vars == <<options, parser, stream, sent, built, chunks, dispatched, handled, encoding,
          callbacks>>

-----------------------------------------------------------------------------
(* Bounds of the model *)

\* client messages per behaviour, streaming specification
MaxFrames == 2
\* Buffer chunks written per behaviour, streaming specification
MaxWrites == 2
\* client messages per behaviour, dispatch specification
MaxDispatchFrames == 1
\* createMessage calls per behaviour, encoder specification
MaxEncodeFrames == 1

-----------------------------------------------------------------------------
(* Program constants *)

SETPIXELCOLORS == 0
SYSEX == 255
DefaultChannel == 0
DefaultSystemId == 65535
BUFFER == "buffer"
UINT32_ARRAY == "uint32array"

-----------------------------------------------------------------------------
(* JavaScript values and Buffer primitives *)

Min(a, b) == IF a < b THEN a ELSE b

\* a Buffer / a Uint32Array handed to or by the application
Buf(elems) == [type |-> "Buffer", elems |-> elems]
U32(elems) == [type |-> "Uint32Array", elems |-> elems]

\* An element of a Uint32Array is a 32-bit unsigned integer, kept as its two
\* 16-bit halves: Word(hi, lo) is the integer hi * 65536 + lo.
Word(hi, lo) == [hi |-> hi, lo |-> lo]

\* an options property: <<>> when absent (undefined), <<v>> when given
Given(prop) == prop # <<>>

\* ~~x : undefined becomes 0; an integer below 2^31, as every option value
\* here is, is left as it is
DoubleTilde(prop) == IF Given(prop) THEN prop[1] ELSE 0

\* x || d for a number x
OrElse(x, d) == IF x = 0 THEN d ELSE x

\* (rgb >> 16) & 0xff, (rgb >> 8) & 0xff and rgb & 0xff of a 32-bit rgb
Bits23to16(rgb) == rgb.hi % 256
Bits15to8(rgb) == rgb.lo \div 256
Bits7to0(rgb) == rgb.lo % 256

\* buffer.slice(start, end): a view on bytes start .. end-1, clamped to the buffer
slice(buffer, start, end) == SubSeq(buffer, start + 1, Min(end, Len(buffer)))

\* buffer.readUInt8(offset, true)
readUInt8(buffer, offset) == buffer[offset + 1]

\* buffer.readUInt16BE(offset, true)
readUInt16BE(buffer, offset) == buffer[offset + 1] * 256 + buffer[offset + 2]

\* The integer writes of Buffer, called with noAssert = true.  A runtime that
\* honours noAssert (Node.js before 10) stores the low bits of any value; a
\* runtime that ignores it (Node.js 10 and later) throws a RangeError for a
\* value that does not fit.  honoursNoAssert is the runtime's choice.
writeThrows(value, max, honoursNoAssert) == ~honoursNoAssert /\ (value < 0 \/ value > max)

\* buffer.writeUInt8(value, offset, true): the byte stored
writeUInt8(value) == <<value % 256>>

\* mutant of writeUInt16BE: the two bytes stored low byte first
writeUInt16LE(value) == <<value % 256, (value \div 256) % 256>>

\* buffer.writeUInt16BE(value, offset, true): the two bytes stored
writeUInt16BE(value) == <<(value \div 256) % 256, value % 256>>

-----------------------------------------------------------------------------
(* OpcClientStream *)

\* mutant of createMessage: data.copy(msg, 4) left out, the payload bytes stay
\* as Buffer.alloc zeroed them
createMessageUncopied(channel, command, data, honoursNoAssert) ==
    [threw |-> FALSE,
     msg |-> writeUInt8(channel) \o writeUInt8(command)
               \o writeUInt16BE(Len(data)) \o [i \in 1..Len(data) |-> 0]]

\* static createMessage(channel, command, data): the Buffer returned, or the throw
createMessage(channel, command, data, honoursNoAssert) ==
    IF \/ writeThrows(channel, 255, honoursNoAssert)
       \/ writeThrows(command, 255, honoursNoAssert)
       \/ writeThrows(Len(data), 65535, honoursNoAssert)
    THEN [threw |-> TRUE, msg |-> <<>>]
    ELSE [threw |-> FALSE,
          msg |-> writeUInt8(channel) \o writeUInt8(command)
                    \o writeUInt16BE(Len(data)) \o data]

\* the Uint32Array branch of setPixelColors: 3 bytes per pixel, r g b
toBuffer(elems) ==
    [k \in 1..(3 * Len(elems)) |->
        LET rgb == elems[((k - 1) \div 3) + 1]
        IN CASE (k - 1) % 3 = 0 -> Bits23to16(rgb)
             [] (k - 1) % 3 = 1 -> Bits15to8(rgb)
             [] OTHER           -> Bits7to0(rgb)]

\* setPixelColors(channel, data): the message pushed
setPixelColors(channel, data, honoursNoAssert) ==
    LET bytes == IF data.type = "Uint32Array" THEN toBuffer(data.elems) ELSE data.elems
    IN createMessage(channel, SETPIXELCOLORS, bytes, honoursNoAssert)

\* mutant of sysex: the system id is not put in front of the data
sysexWithoutSystemId(channel, systemId, data, honoursNoAssert) ==
    createMessage(channel, SYSEX, data.elems, honoursNoAssert)

\* sysex(channel, systemId, data): the message pushed
sysex(channel, systemId, data, honoursNoAssert) ==
    IF writeThrows(systemId, 65535, honoursNoAssert)
    THEN [threw |-> TRUE, msg |-> <<>>]
    ELSE createMessage(channel, SYSEX, writeUInt16BE(systemId) \o data.elems,
                       honoursNoAssert)

-----------------------------------------------------------------------------
(* OpcParseStream *)

\* constructor(options)
constructor(opts) ==
    [pushback   |-> <<>>,
     dataFormat |-> IF Given(opts.dataFormat) THEN opts.dataFormat[1] ELSE BUFFER,
     channel    |-> OrElse(DoubleTilde(opts.channel), DefaultChannel),
     systemId   |-> OrElse(DoubleTilde(opts.systemId), DefaultSystemId)]

\* a handler call: this.setPixelColors(data) / this.sysex(commandId, data)
PixelEvent(data) == [event |-> "setpixelcolors", commandId |-> 0, data |-> data]
SysexEvent(commandId, data) == [event |-> "sysex", commandId |-> commandId, data |-> data]

\* mutant of Pack: the bytes taken as b g r
PackReversed(b0, b1, b2) == Word(b2, b1 * 256 + b0)

\* (b0 << 16) | (b1 << 8) | b2 of three bytes, stored in a Uint32Array
Pack(b0, b1, b2) == Word(b0, b1 * 256 + b2)

\* the Uint32Array built by _handleSetPixelColorsMessage
toIntArray(data) ==
    [i \in 1..(Len(data) \div 3) |->
        Pack(readUInt8(data, 3 * (i - 1)),
             readUInt8(data, 3 * (i - 1) + 1),
             readUInt8(data, 3 * (i - 1) + 2))]

\* mutant of _handleSetPixelColorsMessage: the dataFormat test left out, the
\* payload always handed on as a Buffer
_handleSetPixelColorsMessageAsBuffer(self, data) == <<PixelEvent(Buf(data))>>

\* _handleSetPixelColorsMessage(data): the handler calls it makes
_handleSetPixelColorsMessage(self, data) ==
    IF self.dataFormat = BUFFER
    THEN <<PixelEvent(Buf(data))>>
    ELSE <<PixelEvent(U32(toIntArray(data)))>>

\* _handleSysExMessage(data): the handler calls it makes
_handleSysExMessage(self, data) ==
    LET systemId == readUInt16BE(data, 0)
        sysexCommandId == readUInt16BE(data, 2)
    IN IF systemId # self.systemId
       THEN <<>>
       ELSE <<SysexEvent(sysexCommandId, Buf(slice(data, 4, Len(data))))>>

\* mutant of skipChannel: no exemption for the broadcast channel
skipOtherChannel(self, channel) == channel # self.channel

\* mutant of skipChannel: the comparison with this.channel inverted
skipOwnChannel(self, channel) == channel > 0 /\ channel = self.channel

\* the channel test of _handleOpcMessage: TRUE when the frame is skipped
skipChannel(self, channel) == channel > 0 /\ channel # self.channel

\* mutant of sysexTooShort: off by one, a payload of 4 bytes is ignored too
sysexTooShortOrFour(data) == Len(data) <= 4

\* the SysEx length test of _handleOpcMessage: TRUE when the packet is ignored
sysexTooShort(data) == Len(data) < 4

\* _handleOpcMessage(channel, command, data): the handler calls it makes
_handleOpcMessage(self, channel, command, data) ==
    IF skipChannel(self, channel)
    THEN <<>>
    ELSE (IF command = SETPIXELCOLORS
          THEN _handleSetPixelColorsMessage(self, data)
          ELSE <<>>)
         \o
         (IF command = SYSEX /\ ~sysexTooShort(data)
          THEN _handleSysExMessage(self, data)
          ELSE <<>>)

\* mutant of pushbackAfterFrame: the working buffer is stored from its start,
\* the frame just found included
pushbackWholeBuffer(buffer, length, pushback) ==
    IF Len(buffer) > 4 + length
    THEN buffer
    ELSE pushback

\* _write, lines 114-116: this._pushback after a complete frame was found
pushbackAfterFrame(buffer, length, pushback) ==
    IF Len(buffer) > 4 + length
    THEN slice(buffer, 4 + length, Len(buffer))
    ELSE pushback

\* mutant of WriteResult: no return behind the callback() of lines 100 and
\* 111, the callback is invoked again at line 124
WriteResultCallbackAgain(pushback, calls, events, cbs) ==
    [pushback |-> pushback, calls |-> calls, events |-> events,
     callbacks |-> IF pushback = <<>> THEN cbs ELSE cbs \o cbs]

\* what a _write call has done when it returns
WriteResult(pushback, calls, events, cbs) ==
    [pushback |-> pushback, calls |-> calls, events |-> events, callbacks |-> cbs]

\* mutant of _writeLoop: an if in place of the while, one frame per call, the
\* rest of the working buffer kept for the next call
_writeOnce(self, buffer, pushback, calls, events) ==
    IF Len(buffer) = 0
    THEN WriteResult(pushback, calls, events, <<"ok">>)
    ELSE IF Len(buffer) < 4 \/ Len(buffer) < 4 + readUInt16BE(buffer, 2)
    THEN WriteResult(buffer, calls, events, <<"ok">>)
    ELSE LET length == readUInt16BE(buffer, 2)
             data == slice(buffer, 4, 4 + length)
             made == _handleOpcMessage(self, readUInt8(buffer, 0), readUInt8(buffer, 1), data)
         IN WriteResult(slice(buffer, 4 + length, Len(buffer)),
                        <<[channel |-> readUInt8(buffer, 0),
                           command |-> readUInt8(buffer, 1), data |-> data]>>,
                        [i \in 1..Len(made) |->
                            [frame |-> 1, event |-> made[i].event,
                             commandId |-> made[i].commandId, data |-> made[i].data]],
                        <<"ok">>)

\* _write, the while loop: buffer is the working buffer, pushback is
\* this._pushback, calls and events are the _handleOpcMessage and handler calls
\* made so far in this _write call
RECURSIVE _writeLoop(_, _, _, _, _)
_writeLoop(self, buffer, pushback, calls, events) ==
    IF Len(buffer) = 0
    THEN WriteResult(pushback, calls, events, <<"ok">>)
    ELSE IF Len(buffer) < 4
    THEN WriteResult(buffer, calls, events, <<"ok">>)
    ELSE LET channel == readUInt8(buffer, 0)
             command == readUInt8(buffer, 1)
             length == readUInt16BE(buffer, 2)
         IN IF Len(buffer) < 4 + length
            THEN WriteResult(buffer, calls, events, <<"ok">>)
            ELSE LET data == slice(buffer, 4, 4 + length)
                     call == [channel |-> channel, command |-> command, data |-> data]
                     made == _handleOpcMessage(self, channel, command, data)
                 IN _writeLoop(self,
                               slice(buffer, 4 + length, Len(buffer)),
                               pushbackAfterFrame(buffer, length, pushback),
                               Append(calls, call),
                               events \o [i \in 1..Len(made) |->
                                   [frame |-> Len(calls) + 1, event |-> made[i].event,
                                    commandId |-> made[i].commandId,
                                    data |-> made[i].data]])

\* mutant of encodingError: the residual is taken before the encoding is tested
encodingErrorAfterTake(self) == WriteResult(<<>>, <<>>, <<>>, <<"error">>)

\* _write, lines 87-89: the call is rejected
encodingError(self) == WriteResult(self.pushback, <<>>, <<>>, <<"error">>)

\* mutant of _write: lines 91-94 left out, the residual is not put in front
\* of the chunk
_writeWithoutResidual(self, buffer, enc) ==
    IF enc # "buffer"
    THEN encodingError(self)
    ELSE _writeLoop(self, buffer, <<>>, <<>>, <<>>)

\* _write(buffer, encoding, callback)
_write(self, buffer, enc) ==
    IF enc # "buffer"
    THEN encodingError(self)
    ELSE _writeLoop(self, self.pushback \o buffer, <<>>, <<>>, <<>>)

-----------------------------------------------------------------------------
(* Actions *)

NoOptions == [channel |-> <<>>, systemId |-> <<>>, dataFormat |-> <<>>]

\* new OpcParseStream(opts), new OpcClientStream()
Construct(opts) ==
    /\ options = opts
    /\ parser = constructor(opts)
    /\ stream = <<>>
    /\ sent = <<>>
    /\ built = <<>>
    /\ chunks = <<>>
    /\ dispatched = <<>>
    /\ handled = <<>>
    /\ encoding = "none"
    /\ callbacks = <<>>

\* a client call that built (or failed to build) a message: what was asked for
\* (channel, command, payload), the application's data, the system id given
\* (<<>> when the call takes none), and the outcome
Push(op, channel, command, id, data, payload, r) ==
    /\ sent' = Append(sent, [op |-> op, channel |-> channel, command |-> command,
                             systemId |-> id, data |-> data, payload |-> payload,
                             threw |-> r.threw, msg |-> r.msg])
    /\ stream' = stream \o r.msg
    /\ UNCHANGED <<options, parser, built, chunks, dispatched, handled, encoding, callbacks>>

\* client.setPixelColors(channel, data)
SetPixelColors(channel, data, honoursNoAssert) ==
    Push("setPixelColors", channel, SETPIXELCOLORS, <<>>, data,
         IF data.type = "Uint32Array" THEN toBuffer(data.elems) ELSE data.elems,
         setPixelColors(channel, data, honoursNoAssert))

\* client.sysex(channel, systemId, data)
Sysex(channel, systemId, data, honoursNoAssert) ==
    Push("sysex", channel, SYSEX, <<systemId>>, data,
         writeUInt16BE(systemId) \o data.elems,
         sysex(channel, systemId, data, honoursNoAssert))

\* client.push(OpcClientStream.createMessage(channel, command, data))
CreateMessage(channel, command, data, honoursNoAssert) ==
    Push("createMessage", channel, command, <<>>, data, data.elems,
         createMessage(channel, command, data.elems, honoursNoAssert))

\* the effect of a _write call that did r, as call number k with a Buffer
Written(r, k) ==
    /\ parser' = [parser EXCEPT !.pushback = r.pushback]
    /\ dispatched' = dispatched \o
          [i \in 1..Len(r.calls) |->
              [write |-> k, channel |-> r.calls[i].channel,
               command |-> r.calls[i].command, data |-> r.calls[i].data]]
    /\ handled' = handled \o
          [i \in 1..Len(r.events) |->
              [frame |-> Len(dispatched) + r.events[i].frame,
               event |-> r.events[i].event,
               commandId |-> r.events[i].commandId,
               data |-> r.events[i].data]]
    /\ callbacks' = r.callbacks

\* parser._write(chunk, 'buffer', callback), chunk the next n bytes of the stream
Write(n) ==
    /\ n \in 1..Len(stream)
    /\ Written(_write(parser, SubSeq(stream, 1, n), "buffer"), Len(chunks) + 1)
    /\ encoding' = "buffer"
    /\ chunks' = Append(chunks, n)
    /\ stream' = SubSeq(stream, n + 1, Len(stream))
    /\ UNCHANGED <<options, sent, built>>

\* parser._write(chunk, enc, callback) with a chunk that is not a Buffer: the
\* chunk is a string, no byte of the stream is taken
WriteString(enc) ==
    /\ enc # "buffer"
    /\ Written(_write(parser, <<>>, enc), Len(chunks) + 1)
    /\ encoding' = enc
    /\ UNCHANGED <<options, stream, sent, built, chunks>>

-----------------------------------------------------------------------------
(* Streaming specification: a few short messages, chunked at every offset *)

StreamOptions == [channel |-> <<1>>, systemId |-> <<1>>, dataFormat |-> <<UINT32_ARRAY>>]

Init == Construct(StreamOptions)

\* one delivered frame and one frame of each kind the dispatcher drops
StreamMessage ==
    \/ SetPixelColors(0, Buf(<<7, 8, 9>>), TRUE)
    \/ SetPixelColors(2, Buf(<<>>), TRUE)
    \/ CreateMessage(1, 1, Buf(<<9>>), TRUE)
    \/ Sysex(0, 1, Buf(<<>>), TRUE)
    \/ Sysex(1, 2, Buf(<<0, 5>>), TRUE)

ClientSends == Len(sent) < MaxFrames /\ StreamMessage

TransportWrites ==
    /\ Len(chunks) < MaxWrites
    /\ \E n \in 1..Len(stream) : Write(n)

DirectStringWrite == WriteString("utf8")

Next == ClientSends \/ TransportWrites \/ DirectStringWrite

Spec == Init /\ [][Next]_vars

\* The same with one more message per behaviour: long enough for a chunk that
\* ends on a frame boundary after two or more frames to be followed by
\* another chunk.
ClientSendsMore == Len(sent) < MaxFrames + 1 /\ StreamMessage

NextLong == ClientSendsMore \/ TransportWrites \/ DirectStringWrite

SpecLong == Init /\ [][NextLong]_vars

\* Split-frame specification: frames on the receiver's channel, a frame that
\* is a header and nothing else among them, cut at every offset
SplitMessage ==
    \/ SetPixelColors(1, Buf(<<0, 0, 255, 0, 255, 0>>), TRUE)
    \/ Sysex(1, 1, Buf(<<0, 5>>), TRUE)
    \/ SetPixelColors(0, Buf(<<>>), TRUE)

ClientSendsSplit == Len(sent) < MaxFrames /\ SplitMessage

NextSplit == ClientSendsSplit \/ TransportWrites

SpecSplit == Init /\ [][NextSplit]_vars

-----------------------------------------------------------------------------
(* Dispatch specification: one message of every kind, to parsers of every
   configuration, written as one chunk *)

DispatchOptions ==
    { o \in [channel : {<<>>, <<0>>, <<1>>, <<255>>},
             systemId : {<<>>, <<0>>, <<1>>, <<65535>>},
             dataFormat : {<<>>, <<BUFFER>>, <<UINT32_ARRAY>>}] :
        \/ Cardinality({p \in {"channel", "systemId", "dataFormat"} : Given(o[p])}) <= 1
        \/ o = [channel |-> <<1>>, systemId |-> <<1>>, dataFormat |-> <<UINT32_ARRAY>>] }

InitDispatch == \E opts \in DispatchOptions : Construct(opts)

PixelBuffers ==
    { <<>>, <<1, 2, 3>>, <<1, 2, 3, 4>>, <<9, 8, 7, 6, 5>>, <<255, 0, 128, 9, 8, 7>> }

PixelArrays ==
    { <<>>,
      <<Word(0, 255), Word(0, 65280)>>,
      <<Word(258, 772)>>,
      <<Word(256, 0)>>,
      <<Word(65535, 65535), Word(32786, 13398)>> }

SysexData == { <<>>, <<5>>, <<0, 5>>, <<1, 2, 3>>, <<255, 254, 7, 8>> }

DispatchSends ==
    /\ Len(sent) < MaxDispatchFrames
    /\ \/ \E channel \in {0, 1, 2, 255}, data \in PixelBuffers :
             SetPixelColors(channel, Buf(data), TRUE)
       \/ \E channel \in {0, 1}, data \in PixelArrays :
             SetPixelColors(channel, U32(data), TRUE)
       \/ \E channel \in {0, 1, 2}, id \in {0, 1, 65535}, data \in SysexData :
             Sysex(channel, id, Buf(data), TRUE)
       \/ \E channel \in {0, 1}, command \in {1, 254}, data \in {<<>>, <<1, 2, 3, 4>>} :
             CreateMessage(channel, command, Buf(data), TRUE)
       \/ \E data \in {<<>>, <<0>>, <<0, 1, 0>>, <<255, 255, 0>>} :
             CreateMessage(0, SYSEX, Buf(data), TRUE)

DispatchWrites == stream # <<>> /\ Write(Len(stream))

NextDispatch == DispatchSends \/ DispatchWrites

SpecDispatch == InitDispatch /\ [][NextDispatch]_vars

-----------------------------------------------------------------------------
(* Encoder specification: a message is built by createMessage and handed, as
   one chunk, to the _write of a freshly constructed parser with the default
   options.  Payloads go up to and beyond the 65535 bytes the length field
   can state; the history keeps the header, the sizes and the comparisons of
   each call instead of the bytes. *)

\* Buffer.alloc(len, b)
Fill(len, b) == [i \in 1..len |-> b]

InitEncode == Construct(NoOptions)

\* msg = OpcClientStream.createMessage(channel, command, Buffer.alloc(len, b));
\* new OpcParseStream()._write(msg, 'buffer', callback)
BuildAndDecode(channel, command, len, b, honoursNoAssert) ==
    LET data == Fill(len, b)
        r == createMessage(channel, command, data, honoursNoAssert)
        w == _write(constructor(NoOptions), r.msg, "buffer")
    IN /\ built' = Append(built,
              [channel |-> channel, command |-> command, len |-> len, fill |-> b,
               threw |-> r.threw,
               size |-> Len(r.msg),
               header |-> SubSeq(r.msg, 1, Min(4, Len(r.msg))),
               payloadKept |-> (slice(r.msg, 4, Len(r.msg)) = data),
               calls |-> IF r.threw THEN 0 ELSE Len(w.calls),
               first |-> IF r.threw \/ w.calls = <<>>
                         THEN <<>>
                         ELSE <<[channel |-> w.calls[1].channel,
                                 command |-> w.calls[1].command,
                                 size |-> Len(w.calls[1].data),
                                 same |-> (w.calls[1].data = data)]>>,
               residual |-> IF r.threw THEN 0 ELSE Len(w.pushback),
               callbacks |-> IF r.threw THEN <<>> ELSE w.callbacks])
       /\ UNCHANGED <<options, parser, stream, sent, chunks, dispatched, handled,
                      encoding, callbacks>>

EncodeBuilds ==
    /\ Len(built) < MaxEncodeFrames
    /\ \E honoursNoAssert \in BOOLEAN :
          \/ \E channel \in {0, 1, 255}, command \in {0, 1, 255},
                len \in {0, 1, 3, 255, 256, 258}, b \in {0, 171} :
                BuildAndDecode(channel, command, len, b, honoursNoAssert)
          \/ \E len \in {65535, 65536, 65537} :
                BuildAndDecode(255, 255, len, 255, honoursNoAssert)

NextEncode == EncodeBuilds

SpecEncode == InitEncode /\ [][NextEncode]_vars

-----------------------------------------------------------------------------
(* What the histories say *)

RECURSIVE Sum(_)
Sum(lens) == IF lens = <<>> THEN 0 ELSE lens[1] + Sum(Tail(lens))

RECURSIVE Concat(_)
Concat(seqs) == IF seqs = <<>> THEN <<>> ELSE seqs[1] \o Concat(Tail(seqs))

\* every byte the client has pushed, and the part of it written to the parser
Wire == Concat([i \in 1..Len(sent) |-> sent[i].msg])
FedLen == Sum(chunks)

\* the frame client call i asked for
FrameOf(i) ==
    [channel |-> sent[i].channel, command |-> sent[i].command, data |-> sent[i].payload]

\* the wire offset just behind the message of client call i
EndOf(i) == Sum([j \in 1..i |-> Len(sent[j].msg)])

\* the wire offsets chunk k covers: ChunkStart(k) < offset <= ChunkEnd(k)
ChunkEnd(k) == Sum(SubSeq(chunks, 1, k))
ChunkStart(k) == ChunkEnd(k - 1)

\* a _handleOpcMessage call without the number of the _write call it ran in
Untagged(d) == [channel |-> d.channel, command |-> d.command, data |-> d.data]

\* the _handleOpcMessage calls made by _write call k, in order
CallsIn(k) ==
    LET in == SelectSeq(dispatched, LAMBDA d : d.write = k)
    IN [i \in 1..Len(in) |-> Untagged(in[i])]

\* the frames whose last byte chunk k supplies, in wire order
CompletedBy(k) ==
    LET from == ChunkStart(k)
        to == ChunkEnd(k)
        idx == SelectSeq([i \in 1..Len(sent) |-> i],
                         LAMBDA i : LET end == EndOf(i)
                                    IN ~sent[i].threw /\ from < end /\ end <= to)
    IN [j \in 1..Len(idx) |-> FrameOf(idx[j])]

\* the handler calls made for _handleOpcMessage call i
HandledFor(i) == SelectSeq(handled, LAMBDA h : h.frame = i)

\* the chunks written so far, replayed on a freshly constructed parser fed
\* the bytes of wire
RECURSIVE Replay(_, _, _, _)
Replay(self, wire, lens, done) ==
    IF lens = <<>>
    THEN [pushback |-> self.pushback, calls |-> done.calls, events |-> done.events]
    ELSE LET r == _write(self, SubSeq(wire, 1, lens[1]), "buffer")
             k == Len(chunks) - Len(lens) + 1
         IN Replay([self EXCEPT !.pushback = r.pushback],
                   SubSeq(wire, lens[1] + 1, Len(wire)),
                   Tail(lens),
                   [calls |-> done.calls \o
                        [i \in 1..Len(r.calls) |->
                            [write |-> k, channel |-> r.calls[i].channel,
                             command |-> r.calls[i].command, data |-> r.calls[i].data]],
                    events |-> done.events \o
                        [i \in 1..Len(r.events) |->
                            [frame |-> Len(done.calls) + r.events[i].frame,
                             event |-> r.events[i].event,
                             commandId |-> r.events[i].commandId,
                             data |-> r.events[i].data]]])

-----------------------------------------------------------------------------
(* C1 *)

\* C1 (as claimed): every split of the wire bytes of a frame sequence into
\* non-empty chunks produces the same _handleOpcMessage calls as every other
\* split; here: once all the bytes are written, the calls made are those a
\* fresh parser makes when it is fed the same bytes as one chunk.
C1_SplitIndependent ==
    (stream = <<>> /\ chunks # <<>>)
        => [i \in 1..Len(dispatched) |-> Untagged(dispatched[i])]
             = _write(constructor(options), Wire, "buffer").calls

-----------------------------------------------------------------------------
(* C2 *)

\* C2: the bytes createMessage returns for (channel, command, payload), with
\* a payload of at most 65535 bytes, written as one chunk to a fresh parser,
\* give exactly one _handleOpcMessage call, with (channel, command, payload).
C2_RoundTrip ==
    \A i \in 1..Len(built) :
        (~built[i].threw /\ built[i].len <= 65535)
          => /\ built[i].calls = 1
             /\ built[i].first =
                   <<[channel |-> built[i].channel, command |-> built[i].command,
                      size |-> built[i].len, same |-> TRUE]>>
             /\ built[i].residual = 0
             /\ built[i].callbacks = <<"ok">>

\* a message with a payload of 65535 bytes was built and decoded
C2_Witness ==
    \E i \in 1..Len(built) :
        /\ built[i].len = 65535
        /\ built[i].calls = 1
        /\ built[i].first # <<>>
        /\ built[i].first[1].size = 65535
        /\ built[i].channel = 255

-----------------------------------------------------------------------------
(* C3 *)

\* the handler calls (by position in the history) with a Uint32Array made for
\* a frame whose payload is the packed form of the Uint32Array of client call i
ArraysBackFrom(i) ==
    { j \in 1..Len(handled) :
        /\ handled[j].event = "setpixelcolors"
        /\ handled[j].data.type = "Uint32Array"
        /\ dispatched[handled[j].frame].data = sent[i].payload }

\* the client calls that sent a Uint32Array
ArrayCalls ==
    { i \in 1..Len(sent) : sent[i].op = "setPixelColors" /\ sent[i].data.type = "Uint32Array" }

\* C3 (as claimed): an array of 32-bit unsigned integers, values with a
\* non-zero high byte included, packed by OpcClientStream.setPixelColors and
\* unpacked by _handleSetPixelColorsMessage in UINT32_ARRAY format, comes
\* back equal.
C3_ArrayComesBackEqual ==
    \A i \in ArrayCalls : \A j \in ArraysBackFrom(i) :
        handled[j].data.elems = sent[i].data.elems

\* C3 (amended): every element comes back as its low 24 bits, the high byte
\* zero; an array whose elements are all below 2^24 comes back equal.
C3_ArrayComesBackLow24 ==
    \A i \in ArrayCalls : \A j \in ArraysBackFrom(i) :
        LET back == handled[j].data.elems
        IN /\ Len(back) = Len(sent[i].data.elems)
           /\ \A k \in 1..Len(back) :
                 /\ back[k].hi = sent[i].data.elems[k].hi % 256
                 /\ back[k].lo = sent[i].data.elems[k].lo
           /\ (\A k \in 1..Len(sent[i].data.elems) : sent[i].data.elems[k].hi < 256)
                 => back = sent[i].data.elems

\* an array of two elements with non-zero high bytes was packed, sent and unpacked
C3_Witness ==
    \E i \in ArrayCalls : \E j \in ArraysBackFrom(i) :
        /\ Len(handled[j].data.elems) = 2
        /\ sent[i].data.elems[1].hi >= 256
        /\ handled[j].data.elems[2] = Word(18, 13398)

-----------------------------------------------------------------------------
(* C4 *)

\* the channel the receiver was configured with (0 when none was given)
ConfiguredChannel == IF Given(options.channel) THEN options.channel[1] ELSE 0

\* C4: with a receiver configured for channel N, only frames of channel 0 or
\* N reach a handler, a frame of any other channel gets no handler call and
\* no error, and a channel-0 frame passes the filter whatever N is (a
\* SetPixelColors frame on channel 0 always gets its handler call).
C4_ChannelFilter ==
    /\ \A j \in 1..Len(handled) :
          dispatched[handled[j].frame].channel \in {0, ConfiguredChannel}
    /\ \A i \in 1..Len(dispatched) :
          /\ dispatched[i].channel \notin {0, ConfiguredChannel} => HandledFor(i) = <<>>
          /\ (dispatched[i].channel = 0 /\ dispatched[i].command = SETPIXELCOLORS)
                => Len(HandledFor(i)) = 1
    /\ encoding = "buffer" => callbacks = <<"ok">>

\* a receiver configured for channel 255 was handed a broadcast frame
C4_Witness ==
    /\ ConfiguredChannel = 255
    /\ \E i \in 1..Len(dispatched) :
          dispatched[i].channel = 0 /\ HandledFor(i) # <<>>

-----------------------------------------------------------------------------
(* C5 *)

\* the system id the receiver was configured with (0xFFFF when none was given)
ConfiguredSystemId == IF Given(options.systemId) THEN options.systemId[1] ELSE 65535

\* C5 (as claimed): for a SysEx frame that passes the channel filter with a
\* payload of 4 bytes or more, the sysex handler is called if and only if the
\* big-endian value of payload[0..2] is the configured system id, and then
\* with (bigEndian16(payload[2..4]), payload[4..]).
C5_ConfiguredSystemIdDecides ==
    \A i \in 1..Len(dispatched) :
        LET d == dispatched[i]
        IN (/\ d.command = SYSEX
            /\ d.channel \in {0, ConfiguredChannel}
            /\ Len(d.data) >= 4)
             => IF readUInt16BE(d.data, 0) = ConfiguredSystemId
                THEN HandledFor(i) =
                       <<[frame |-> i, event |-> "sysex",
                          commandId |-> readUInt16BE(d.data, 2),
                          data |-> Buf(SubSeq(d.data, 5, Len(d.data)))]>>
                ELSE HandledFor(i) = <<>>

-----------------------------------------------------------------------------
(* C6 *)

\* C6: a SysEx frame with a payload of 0 to 3 bytes gets no handler call and
\* no error; a SysEx frame with a payload of exactly 4 bytes, the receiver's
\* system id and an accepted channel gets exactly one sysex handler call,
\* with empty data.
C6_SysexMinimumLength ==
    /\ \A i \in 1..Len(dispatched) :
          LET d == dispatched[i]
          IN /\ (d.command = SYSEX /\ Len(d.data) < 4) => HandledFor(i) = <<>>
             /\ (/\ d.command = SYSEX
                 /\ Len(d.data) = 4
                 /\ d.channel \in {0, parser.channel}
                 /\ readUInt16BE(d.data, 0) = parser.systemId)
                  => HandledFor(i) =
                       <<[frame |-> i, event |-> "sysex",
                          commandId |-> readUInt16BE(d.data, 2), data |-> Buf(<<>>)]>>
    /\ encoding = "buffer" => callbacks = <<"ok">>

\* a 3-byte SysEx payload was dropped by one receiver, a 4-byte one delivered
\* to another
C6_Witness ==
    \E i \in 1..Len(dispatched) :
        /\ dispatched[i].command = SYSEX
        /\ \/ Len(dispatched[i].data) = 3 /\ parser.systemId = 1 /\ handled = <<>>
           \/ Len(dispatched[i].data) = 4 /\ parser.systemId = 1 /\ HandledFor(i) # <<>>

-----------------------------------------------------------------------------
(* C10 *)

\* C10 (as claimed): createMessage fails with an error, and returns no frame,
\* for a payload of more than 65535 bytes; the length field of a frame it
\* returns is the byte count of the payload behind it.
C10_OversizedPayloadRejected ==
    \A i \in 1..Len(built) :
        /\ built[i].len > 65535 => (built[i].threw /\ built[i].size = 0)
        /\ ~built[i].threw => readUInt16BE(built[i].header, 2) = built[i].size - 4

-----------------------------------------------------------------------------
(* C11 *)

\* C11: for a channel and a command in 0..255 and a payload of n <= 65535
\* bytes, createMessage returns (on every runtime) exactly 4 + n bytes: the
\* channel, the command, n as two bytes high byte first, and then the payload
\* bytes unchanged and in order.
C11_FrameLayout ==
    \A i \in 1..Len(built) :
        LET b == built[i]
        IN (b.channel \in 0..255 /\ b.command \in 0..255 /\ b.len <= 65535)
             => /\ ~b.threw
                /\ b.size = 4 + b.len
                /\ b.header = <<b.channel, b.command, b.len \div 256, b.len % 256>>
                /\ b.payloadKept

\* a frame with a payload of 258 non-zero bytes was built: both bytes of the
\* length field are non-zero and differ
C11_Witness ==
    \E i \in 1..Len(built) :
        /\ built[i].len = 258
        /\ built[i].fill = 171
        /\ built[i].header = <<1, 255, 1, 2>>
        /\ built[i].size = 262

-----------------------------------------------------------------------------
(* C12 *)

\* the integer array the claim describes for a payload: floor(n / 3) elements,
\* element i (from 0) is (p[3i] << 16) | (p[3i+1] << 8) | p[3i+2]
IntArrayOf(p) ==
    [k \in 1..(Len(p) \div 3) |-> Word(p[3 * k - 2], p[3 * k - 1] * 256 + p[3 * k])]

\* C12: a SetPixelColors frame that passes the channel filter gets exactly one
\* pixel handler call and no error: with the payload bytes unchanged when
\* dataFormat is BUFFER, and otherwise with the integer array of the payload,
\* the 1 or 2 bytes behind the last whole pixel left out.
C12_PixelHandlerOnce ==
    /\ \A i \in 1..Len(dispatched) :
          LET d == dispatched[i]
          IN (d.command = SETPIXELCOLORS /\ d.channel \in {0, parser.channel})
               => HandledFor(i) =
                    <<[frame |-> i, event |-> "setpixelcolors", commandId |-> 0,
                       data |-> IF parser.dataFormat = BUFFER
                                THEN Buf(d.data)
                                ELSE U32(IntArrayOf(d.data))]>>
    /\ encoding = "buffer" => callbacks = <<"ok">>

\* a payload of 5 bytes reached the handler as an array of one pixel
C12_Witness ==
    \E i \in 1..Len(dispatched) :
        /\ Len(dispatched[i].data) = 5
        /\ parser.dataFormat = UINT32_ARRAY
        /\ HandledFor(i) # <<>>
        /\ HandledFor(i)[1].data = U32(<<Word(9, 2055)>>)

-----------------------------------------------------------------------------
(* C13 *)

\* the bytes start with a complete frame: a header and the payload it declares
HoldsCompleteFrame(bytes) ==
    /\ Len(bytes) >= 4
    /\ Len(bytes) >= 4 + readUInt16BE(bytes, 2)

\* the bytes written so far end exactly behind a frame
FedToBoundary == \E i \in 1..Len(sent) : EndOf(i) = FedLen

\* C13 (as claimed): after every _write call the residual holds no complete
\* frame, and it is empty when the bytes written so far end on a frame
\* boundary.
C13_ResidualIncomplete ==
    /\ ~HoldsCompleteFrame(parser.pushback)
    /\ FedToBoundary => parser.pushback = <<>>

-----------------------------------------------------------------------------
(* C14 *)

\* the wire offset at which the frame of client call i starts
StartOf(i) == EndOf(i - 1)

\* C14: a _handleOpcMessage call is made only with a frame all of whose bytes
\* have been written by then; while the bytes written so far end inside a
\* frame, the residual is exactly the bytes of that frame received so far,
\* header included; and every frame is handed over, with its channel, command
\* and payload, by the _write call whose chunk holds its last byte.
C14_OnlyCompleteFrames ==
    /\ \A j \in 1..Len(dispatched) :
          \E i \in 1..Len(sent) :
              /\ Untagged(dispatched[j]) = FrameOf(i)
              /\ EndOf(i) <= ChunkEnd(dispatched[j].write)
    /\ LET fed == FedLen
       IN \A i \in 1..Len(sent) :
             (StartOf(i) < fed /\ fed < EndOf(i))
                => parser.pushback = SubSeq(Wire, StartOf(i) + 1, fed)
    /\ \A k \in 1..Len(chunks) :
          LET from == ChunkStart(k)
              to == ChunkEnd(k)
              calls == CallsIn(k)
          IN \A i \in 1..Len(sent) :
                LET end == EndOf(i)
                IN (from < end /\ end <= to)
                     => \E c \in 1..Len(calls) : calls[c] = FrameOf(i)

\* the chunks 01 00 00 and 06 00 00 FF 00 FF 00 were written and gave one
\* call, made by the second _write
C14_Witness ==
    /\ chunks = <<3, 7>>
    /\ dispatched = <<[write |-> 2, channel |-> 1, command |-> SETPIXELCOLORS,
                       data |-> <<0, 0, 255, 0, 255, 0>>]>>
    /\ Len(handled) = 1
    /\ parser.pushback = <<>>

-----------------------------------------------------------------------------
(* C15 *)

\* the largest frame there is: a header and the longest payload the length
\* field can declare
MaxFrameSize == 4 + 65535

\* the size of the largest frame the client has sent so far
RECURSIVE Largest(_)
Largest(lens) ==
    IF lens = <<>> THEN 0
    ELSE IF lens[1] > Largest(Tail(lens)) THEN lens[1] ELSE Largest(Tail(lens))

LargestSent == Largest([i \in 1..Len(sent) |-> Len(sent[i].msg)])

\* C15: after every _write call the residual holds at most 3 bytes more than
\* the largest single frame: than the largest frame there is, and than the
\* largest frame on this wire, whatever the chunks were and however many
\* frames a chunk held.
C15_ResidualBounded ==
    /\ Len(parser.pushback) <= MaxFrameSize + 3
    /\ Len(parser.pushback) <= LargestSent + 3

\* a chunk held a whole frame and all but the last byte of the largest frame
C15_Witness ==
    /\ Len(chunks) = 1
    /\ Len(dispatched) = 1
    /\ Len(parser.pushback) = 7
    /\ LargestSent = 8
    /\ ~HoldsCompleteFrame(parser.pushback)

-----------------------------------------------------------------------------
(* C16 *)

\* the frames wholly contained in the bytes written so far
CompleteFramesFed == { i \in 1..Len(sent) : EndOf(i) <= FedLen }

\* C16 (as claimed): no frame is dispatched twice: the _handleOpcMessage calls
\* made so far are never more than the complete frames in the bytes written
\* so far.
C16_NoFrameTwice == Len(dispatched) <= Cardinality(CompleteFramesFed)

-----------------------------------------------------------------------------
(* C17 *)

\* the client calls of sysex
SysexCalls == { i \in 1..Len(sent) : sent[i].op = "sysex" }

\* C17: sysex(channel, systemId, data) sends a frame with command 0xFF whose
\* payload is the system id, high byte first, followed by data.  Decoded by a
\* receiver whose channel filter accepts it and whose systemId is the
\* sender's, it gives exactly one sysex handler call, with the big-endian
\* value of data[0..2] and data[2..], when data has 2 bytes or more, and no
\* handler call and no error when data has 0 or 1 bytes.
C17_SysexRoundTrip ==
    /\ \A i \in SysexCalls :
          LET id == sent[i].systemId[1]
              data == sent[i].data.elems
              n == Len(data)
          IN /\ ~sent[i].threw
             /\ sent[i].msg = <<sent[i].channel, 255, (2 + n) \div 256, (2 + n) % 256,
                                id \div 256, id % 256>> \o data
             /\ (/\ i <= Len(dispatched)
                 /\ sent[i].channel \in {0, parser.channel}
                 /\ parser.systemId = id)
                  => /\ dispatched[i].command = SYSEX
                     /\ HandledFor(i) =
                           IF n >= 2
                           THEN <<[frame |-> i, event |-> "sysex",
                                   commandId |-> data[1] * 256 + data[2],
                                   data |-> Buf(SubSeq(data, 3, n))]>>
                           ELSE <<>>
    /\ stream = <<>> => Len(dispatched) = Len(sent)
    /\ encoding = "buffer" => callbacks = <<"ok">>

\* a sysex call on the receiver's channel, with the receiver's system id and 4
\* bytes of data, reached the sysex handler
C17_Witness ==
    \E i \in SysexCalls :
        /\ sent[i].channel = 1
        /\ sent[i].systemId = <<1>>
        /\ parser.channel = 1
        /\ HandledFor(i) = <<[frame |-> i, event |-> "sysex", commandId |-> 65534,
                              data |-> Buf(<<7, 8>>)]>>

-----------------------------------------------------------------------------
(* C7 *)

\* a frame the dispatcher is to drop: a reserved command, a channel that is
\* neither broadcast nor the receiver's, a SysEx payload shorter than 4 bytes,
\* or a SysEx system id that is not the receiver's
DroppedFrame(f) ==
    \/ f.command \notin {SETPIXELCOLORS, SYSEX}
    \/ f.channel # 0 /\ f.channel # parser.channel
    \/ f.command = SYSEX /\ Len(f.data) < 4
    \/ f.command = SYSEX /\ Len(f.data) >= 4 /\ readUInt16BE(f.data, 0) # parser.systemId

\* the wire with every dropped frame replaced by a delivered frame of the same
\* wire length (broadcast channel, SetPixelColors, the same payload)
TwinWire ==
    Concat([i \in 1..Len(sent) |->
        IF DroppedFrame(FrameOf(i))
        THEN createMessage(0, SETPIXELCOLORS, sent[i].payload, TRUE).msg
        ELSE sent[i].msg])

\* the same chunk lengths written to a fresh parser, over the twin wire
Twin == Replay(constructor(options), TwinWire, chunks, [calls |-> <<>>, events |-> <<>>])

\* C7: a dropped frame invokes no handler and raises no error, and the decoder
\* goes on as after a delivered frame of the same wire length: with every
\* dropped frame replaced by a delivered one, the residual has the same
\* length, the same _handleOpcMessage calls are made in the same _write calls
\* with the same payloads, and every frame that is not dropped gets the same
\* handler calls.
C7_DropsAreNoOps ==
    /\ \A i \in 1..Len(dispatched) : DroppedFrame(dispatched[i]) => HandledFor(i) = <<>>
    /\ encoding = "buffer" => callbacks = <<"ok">>
    /\ LET twin == Twin
       IN /\ Len(twin.pushback) = Len(parser.pushback)
          /\ Len(twin.calls) = Len(dispatched)
          /\ \A i \in 1..Len(dispatched) :
                /\ twin.calls[i].write = dispatched[i].write
                /\ twin.calls[i].data = dispatched[i].data
                /\ ~DroppedFrame(dispatched[i])
                      => SelectSeq(twin.events, LAMBDA h : h.frame = i) = HandledFor(i)

\* a dropped SysEx frame was followed by a frame that reached its handler
C7_Witness ==
    \E i, j \in 1..Len(dispatched) :
        /\ i < j
        /\ DroppedFrame(dispatched[i])
        /\ dispatched[i].command = SYSEX
        /\ HandledFor(j) # <<>>

-----------------------------------------------------------------------------
(* C8 *)

\* C8: when a _write call invokes its callback, the frames whose last byte
\* its chunk supplied have all been handed to _handleOpcMessage by that very
\* call, in wire order: they are the last calls the _write call made.
C8_DrainedInOrder ==
    /\ encoding = "buffer" => callbacks = <<"ok">>
    /\ \A k \in 1..Len(chunks) :
          LET new == CompletedBy(k)
              calls == CallsIn(k)
          IN /\ Len(new) <= Len(calls)
             /\ SubSeq(calls, Len(calls) - Len(new) + 1, Len(calls)) = new

\* one chunk completed two frames and both were dispatched by that call
C8_Witness ==
    \E k \in 1..Len(chunks) :
        /\ Len(CompletedBy(k)) = 2
        /\ Len(CallsIn(k)) = 2
        /\ CompletedBy(k)[1] # CompletedBy(k)[2]

-----------------------------------------------------------------------------
(* C9 *)

\* C9: a _write call with an encoding other than 'buffer' hands an error to
\* its callback, dispatches nothing and leaves the parser, its residual
\* included, as it was.
C9_RejectedWriteChangesNothing ==
    [][encoding' = "utf8" =>
          /\ callbacks' = <<"error">>
          /\ parser' = parser
          /\ dispatched' = dispatched
          /\ handled' = handled]_vars

\* a call was rejected while the residual held bytes of an incomplete frame
C9_Witness ==
    /\ encoding = "utf8"
    /\ callbacks = <<"error">>
    /\ parser.pushback # <<>>
    /\ dispatched = <<>>

-----------------------------------------------------------------------------
(* C18 *)

\* C18: every _write call returns after at most one loop iteration per 4
\* bytes of its working buffer (residual and chunk), keeps no more bytes than
\* the working buffer had, and has invoked its callback exactly once: with an
\* error when the encoding is not 'buffer', without one on the three other
\* paths.
C18_WriteReturnsCallbackOnce ==
    [][sent' = sent =>
          /\ Len(callbacks') = 1
          /\ callbacks' = IF encoding' = "buffer" THEN <<"ok">> ELSE <<"error">>
          /\ chunks' # chunks =>
                LET working == Len(parser.pushback) + chunks'[Len(chunks')]
                IN /\ 4 * (Len(dispatched') - Len(dispatched)) <= working
                   /\ Len(parser'.pushback) <= working]_vars

\* a _write call went through the loop once, stopped at an incomplete payload
\* and invoked its callback
C18_Witness ==
    /\ encoding = "buffer"
    /\ callbacks = <<"ok">>
    /\ Len(chunks) = 2
    /\ \E i \in 1..Len(dispatched) : dispatched[i].write = 2
    /\ Len(parser.pushback) >= 4
    /\ ~HoldsCompleteFrame(parser.pushback)

====
